---------------------------- MODULE Spec2Model ----------------------------
(***************************************************************************)
(* Model of librarejob (src/librarejob/rarejob.go): the client that drives *)
(* a browser through a selenium session to log in and reserve a tutor.     *)
(*                                                                         *)
(* The program is sequential.  Each call on the selenium session or the    *)
(* selenium service is one step; its outcome (success, failure, timeout,   *)
(* the text or the number of elements returned) is chosen by the automation*)
(* backend, which the model leaves free.                                   *)
(*                                                                         *)
(* Time: a time.Time is a record [t, off], t the instant in minutes since  *)
(* the zero time (0001-01-01 00:00 UTC) and off the offset in minutes of   *)
(* the value's location from UTC.  A time.Duration is a number of minutes. *)
(***************************************************************************)
EXTENDS Integers, Sequences, FiniteSets, TLC

\* ------------------------------------------------------------ bounds

\* Most tutor rows the result page shows.
MaxTutors == 2
\* Most slot elements one tutor row holds.
MaxSlots == 2
\* Day number (days since the zero time) of the first day searches start on.
BaseDay == 738000

\* ------------------------------------------------- program constants

\* 24 * time.Hour, in minutes.
DayMinutes == 1440
\* 25 * time.Minute: the fixed lesson length.
LessonMinutes == 25

Nil == "nil"
ErrSpreadAcrossTwoDays == "ErrSpreadAcrossTwoDays"

\* ------------------------------------------------------ package time

\* time.Time{}: the zero time, in UTC.
ZeroTime == [t |-> 0, off |-> 0]

\* Offsets from UTC the machine's local zone may have: UTC, JST.
LocalZones == {0, 540}

\* The local zone of a whole run of the client: JST, the site's zone.
RunZones == {540}

\* t.Add(d)
Add(x, d) == [t |-> x.t + d, off |-> x.off]

\* t.Hour(): the hour of day in t's own location.
Hour(x) == ((x.t + x.off) \div 60) % 24

\* t.Year(), t.Month(), t.Day() in t's own location, as one day number.
Day(x) == (x.t + x.off) \div DayMinutes

\* time.Date(y, m, d, hour, min, 0, 0, loc) with loc's offset zone.
Date(day, hour, min, zone) ==
    [t |-> day * DayMinutes + hour * 60 + min - zone, off |-> zone]

\* ------------------------------------------------------ parseTime

Digits == {"0", "1", "2", "3", "4", "5", "6", "7", "8", "9"}

DigitVal(c) ==
    CASE c = "0" -> 0 [] c = "1" -> 1 [] c = "2" -> 2 [] c = "3" -> 3
      [] c = "4" -> 4 [] c = "5" -> 5 [] c = "6" -> 6 [] c = "7" -> 7
      [] c = "8" -> 8 [] c = "9" -> 9

RECURSIVE Atoi(_)
Atoi(s) ==
    IF s = <<>> THEN 0
    ELSE Atoi(SubSeq(s, 1, Len(s) - 1)) * 10 + DigitVal(s[Len(s)])

AllDigits(s) == s # <<>> /\ \A i \in 1..Len(s) : s[i] \in Digits

\* parseTime(text): "H:MM" to (h, m, err).  A text is a sequence of
\* characters.  A failed parse returns zero values and an error.
parseTime(text) ==
    LET colons == {i \in 1..Len(text) : text[i] = ":"}
        bad    == [h |-> 0, m |-> 0, err |-> TRUE]
    IN  IF Cardinality(colons) # 1 THEN bad
        ELSE LET i  == CHOOSE j \in colons : TRUE
                 hs == SubSeq(text, 1, i - 1)
                 ms == SubSeq(text, i + 1, Len(text))
             IN  IF AllDigits(hs) /\ AllDigits(ms)
                 THEN [h |-> Atoi(hs), m |-> Atoi(ms), err |-> FALSE]
                 ELSE bad

\* ------------------------------------------------------------- state

VARIABLES
    pc,       \* the program's position
    service,  \* the selenium service (driver process): none, running, stopped
    wd,       \* the remote browser session: none, open, quit
    tzLocal,  \* the offset of time.Local
    from,     \* ReserveTutor's argument from
    margin,   \* ReserveTutor's argument margin
    trace,    \* the backend commands the running operation has issued
    failed,   \* the backend calls of the running operation that failed
    tnum,     \* ReserveTutor's row counter
    snum,     \* ReserveTutor's slot counter
    ntutors,  \* len(tutorList)
    nslots,   \* len(slotElms)
    name,     \* the current row's name
    slots,    \* the current row's slots
    tutors,   \* the rows scraped
    page,     \* what the backend showed: per row, the slot elements and texts
    ret       \* what the last operation returned

vars == <<pc, service, wd, tzLocal, from, margin, trace, failed, tnum, snum,
          ntutors, nslots, name, slots, tutors, page, ret>>

\* The variables local to one call of ReserveTutor.
scrape == <<tnum, snum, ntutors, nslots, name, slots, tutors, page>>

\* A nil pointer result; a pointer to r is <<r>>.
NoRes == <<>>

NoRet == [op |-> "none", res |-> NoRes, err |-> Nil]

Return(op, res, err) == [op |-> op, res |-> res, err |-> err]

Issue(cmd) == Append(trace, cmd)

\* The state a call starts with.
Fresh ==
    /\ trace' = <<>>
    /\ failed' = {}
    /\ tnum' = 0
    /\ snum' = 0
    /\ ntutors' = 0
    /\ nslots' = 0
    /\ name' = ""
    /\ slots' = <<>>
    /\ tutors' = <<>>
    /\ page' = <<>>

Init ==
    /\ pc = "start"
    /\ service = "none"
    /\ wd = "none"
    /\ tzLocal \in RunZones
    /\ from = ZeroTime
    /\ margin = 0
    /\ trace = <<>>
    /\ failed = {}
    /\ tnum = 0
    /\ snum = 0
    /\ ntutors = 0
    /\ nslots = 0
    /\ name = ""
    /\ slots = <<>>
    /\ tutors = <<>>
    /\ page = <<>>
    /\ ret = NoRet

\* ---------------------------------------------------------- NewClient

\* NewClient: start the selenium service, then connect the remote session.
NewClient ==
    /\ pc = "start"
    /\ \E started \in BOOLEAN, connected \in BOOLEAN :
        IF ~started
        THEN /\ trace' = <<"NewSeleniumService">>
             /\ ret' = Return("NewClient", NoRes, "service")
             /\ pc' = "exit"
             /\ UNCHANGED <<service, wd>>
        ELSE IF ~connected
        THEN /\ trace' = <<"NewSeleniumService", "NewRemote">>
             /\ service' = "running"
             /\ ret' = Return("NewClient", NoRes, "remote")
             /\ pc' = "exit"
             /\ UNCHANGED wd
        ELSE /\ trace' = <<"NewSeleniumService", "NewRemote">>
             /\ service' = "running"
             /\ wd' = "open"
             /\ ret' = Return("NewClient", <<"client">>, Nil)
             /\ pc' = "idle"
    /\ UNCHANGED <<tzLocal, from, margin, failed, scrape>>

\* -------------------------------------------------------------- Login

\* The outcome of a backend call is remembered here, whether or not the
\* program looks at the error the call returns.
Outcome(step, ok) == failed' = IF ok THEN failed ELSE failed \cup {step}

\* waitUntilElementLoaded(wd, by, selector): a bounded poll for the element,
\* which ends satisfied or, its bound passed, with an error.
waitUntilElementLoaded(step, ok) == Outcome(step, ok)

\* waitUntilURLChanged(wd, url): a bounded poll for the browser's URL to be
\* url, which ends satisfied or, its bound passed, without it.
waitUntilURLChanged(step, ok) == Outcome(step, ok)

CallLogin ==
    /\ pc = "idle"
    /\ Fresh
    /\ ret' = NoRet
    /\ pc' = "L_get"
    /\ from' = ZeroTime
    /\ margin' = 0
    /\ UNCHANGED <<service, wd, tzLocal>>

\* c.wd.Get(rarejobLoginURL)
L_Get ==
    /\ pc = "L_get"
    /\ trace' = Issue("Get")
    /\ \E ok \in BOOLEAN :
        /\ Outcome("get", ok)
        /\ IF ok
           THEN pc' = "L_waitEmail" /\ UNCHANGED ret
           ELSE pc' = "idle" /\ ret' = Return("Login", NoRes, "failed to access rarejob login page")
    /\ UNCHANGED <<service, wd, tzLocal, from, margin, scrape>>

\* _ = waitUntilElementLoaded(c.wd, selenium.ByCSSSelector, loginPageEmailSelector)
L_WaitEmail ==
    /\ pc = "L_waitEmail"
    /\ trace' = Issue("waitUntilElementLoaded")
    /\ \E ok \in BOOLEAN : waitUntilElementLoaded("wait email", ok)
    /\ pc' = "L_findEmail"
    /\ UNCHANGED <<service, wd, tzLocal, from, margin, scrape, ret>>

\* c.wd.FindElement(email), then emailInput.SendKeys(...)
L_FindEmail ==
    /\ pc = "L_findEmail"
    /\ \E found \in BOOLEAN, typed \in BOOLEAN :
        IF found
        THEN /\ trace' = trace \o <<"FindElement", "SendKeys">>
             /\ Outcome("type email", typed)
             /\ pc' = "L_waitPassword"
             /\ UNCHANGED ret
        ELSE /\ trace' = Issue("FindElement")
             /\ pc' = "idle"
             /\ ret' = Return("Login", NoRes, "failed to find the email input box")
             /\ Outcome("find email", FALSE)
    /\ UNCHANGED <<service, wd, tzLocal, from, margin, scrape>>

\* _ = waitUntilElementLoaded(c.wd, selenium.ByCSSSelector, loginPagePasswordSelector)
L_WaitPassword ==
    /\ pc = "L_waitPassword"
    /\ trace' = Issue("waitUntilElementLoaded")
    /\ \E ok \in BOOLEAN : waitUntilElementLoaded("wait password", ok)
    /\ pc' = "L_findPassword"
    /\ UNCHANGED <<service, wd, tzLocal, from, margin, scrape, ret>>

\* c.wd.FindElement(password), then passwordInput.SendKeys(...)
L_FindPassword ==
    /\ pc = "L_findPassword"
    /\ \E found \in BOOLEAN, typed \in BOOLEAN :
        IF found
        THEN /\ trace' = trace \o <<"FindElement", "SendKeys">>
             /\ Outcome("type password", typed)
             /\ pc' = "L_findSubmit"
             /\ UNCHANGED ret
        ELSE /\ trace' = Issue("FindElement")
             /\ pc' = "idle"
             /\ ret' = Return("Login", NoRes, "failed to find the password input box")
             /\ Outcome("find password", FALSE)
    /\ UNCHANGED <<service, wd, tzLocal, from, margin, scrape>>

\* c.wd.FindElement(selenium.ByName, "yt0"), then submit.Click()
L_FindSubmit ==
    /\ pc = "L_findSubmit"
    /\ \E found \in BOOLEAN, clicked \in BOOLEAN :
        IF found
        THEN /\ trace' = trace \o <<"FindElement", "Click">>
             /\ Outcome("click submit", clicked)
             /\ pc' = "L_waitSession"
             /\ UNCHANGED ret
        ELSE /\ trace' = Issue("FindElement")
             /\ pc' = "idle"
             /\ ret' = Return("Login", NoRes, "failed to find submit button")
             /\ Outcome("find submit", FALSE)
    /\ UNCHANGED <<service, wd, tzLocal, from, margin, scrape>>

\* The bug of a discarded error, applied to the session wait.
L_WaitSession_discarded ==
    /\ pc = "L_waitSession"
    /\ trace' = Issue("Wait")
    /\ \E ok \in BOOLEAN : Outcome("wait session", ok)
    /\ pc' = "idle"
    /\ ret' = Return("Login", NoRes, Nil)
    /\ UNCHANGED <<service, wd, tzLocal, from, margin, scrape>>

\* c.wd.Wait(SessionID() != ""): an error is a login error, else nil.
L_WaitSession ==
    /\ pc = "L_waitSession"
    /\ trace' = Issue("Wait")
    /\ \E ok \in BOOLEAN :
        /\ Outcome("wait session", ok)
        /\ ret' = Return("Login", NoRes, IF ok THEN Nil ELSE "login failed")
    /\ pc' = "idle"
    /\ UNCHANGED <<service, wd, tzLocal, from, margin, scrape>>

Login ==
    \/ CallLogin
    \/ L_Get
    \/ L_WaitEmail
    \/ L_FindEmail
    \/ L_WaitPassword
    \/ L_FindPassword
    \/ L_FindSubmit
    \/ L_WaitSession

\* ------------------------------------------------------- ReserveTutor

\* by := from.Local().Add(margin)
Local(x) == [t |-> x.t, off |-> tzLocal]

ByOf(f, m) == Add(Local(f), m)

\* The bug of accepting a window that ends in the hour it starts in.
SpreadAcrossTwoDays_sameHour(f, m) ==
    ~(m < DayMinutes /\ Hour(f) <= Hour(ByOf(f, m)))

\* !(margin < 24*time.Hour && from.Hour() < by.Hour()): the window is
\* rejected with ErrSpreadAcrossTwoDays.
SpreadAcrossTwoDays(f, m) == ~(m < DayMinutes /\ Hour(f) < Hour(ByOf(f, m)))

\* The windows a caller asks for: 09:00 and 23:30 local on the base day,
\* for 2 hours and for 25 hours.
SearchStarts == {Date(BaseDay, 9, 0, tzLocal), Date(BaseDay, 23, 30, tzLocal)}
SearchMargins == {120, 1500}

\* The texts a name element's Text() gives; the empty text is also what the
\* code is left with when Text() fails, its error being discarded.
NameTexts == {"Alice", ""}

\* The texts a slot element's Text() gives: a time, and a text that is none
\* (the empty text of a failed Text() is parsed, and fails, as "N/A" does).
SlotTexts == {<<"9", ":", "0", "0">>, <<"N", "/", "A">>}

CallReserveTutor ==
    /\ pc = "idle"
    /\ Fresh
    /\ \E f \in SearchStarts, m \in SearchMargins : from' = f /\ margin' = m
    /\ ret' = NoRet
    /\ pc' = "R_validate"
    /\ UNCHANGED <<service, wd, tzLocal>>

\* The bug of navigating before validating.
R_Validate_late ==
    /\ pc = "R_validate"
    /\ trace' = Issue("Get")
    /\ IF SpreadAcrossTwoDays(from, margin)
       THEN pc' = "idle" /\ ret' = Return("ReserveTutor", NoRes, ErrSpreadAcrossTwoDays)
       ELSE pc' = "R_query" /\ UNCHANGED ret
    /\ UNCHANGED <<service, wd, tzLocal, from, margin, failed, scrape>>

\* The window validation, before anything else.
R_Validate ==
    /\ pc = "R_validate"
    /\ IF SpreadAcrossTwoDays(from, margin)
       THEN pc' = "idle" /\ ret' = Return("ReserveTutor", NoRes, ErrSpreadAcrossTwoDays)
       ELSE pc' = "R_query" /\ UNCHANGED ret
    /\ UNCHANGED <<service, wd, tzLocal, from, margin, trace, failed, scrape>>

\* generateTutorSearchQuery(from, by): a URL, or an error.
R_Query ==
    /\ pc = "R_query"
    /\ \E ok \in BOOLEAN :
        IF ok
        THEN pc' = "R_get" /\ UNCHANGED ret
        ELSE pc' = "idle" /\ ret' = Return("ReserveTutor", NoRes, "failed to generate search query")
    /\ UNCHANGED <<service, wd, tzLocal, from, margin, trace, failed, scrape>>

\* c.wd.Get(queryURL)
R_Get ==
    /\ pc = "R_get"
    /\ trace' = Issue("Get")
    /\ \E ok \in BOOLEAN :
        /\ Outcome("get", ok)
        /\ IF ok
           THEN pc' = "R_waitList" /\ UNCHANGED ret
           ELSE pc' = "idle" /\ ret' = Return("ReserveTutor", NoRes, "failed to get availabe tutor list")
    /\ UNCHANGED <<service, wd, tzLocal, from, margin, scrape>>

\* waitUntilElementLoaded(c.wd, selenium.ByCSSSelector, tutorListSelector)
R_WaitList ==
    /\ pc = "R_waitList"
    /\ trace' = Issue("waitUntilElementLoaded")
    /\ \E ok \in BOOLEAN : waitUntilElementLoaded("wait list", ok)
    /\ pc' = "R_findList"
    /\ UNCHANGED <<service, wd, tzLocal, from, margin, scrape, ret>>

\* c.wd.FindElements(tutorListSelector); the row loop starts at tnum = 1.
R_FindList ==
    /\ pc = "R_findList"
    /\ trace' = Issue("FindElements")
    /\ \/ /\ pc' = "idle"
          /\ ret' = Return("ReserveTutor", NoRes, "failed to get tutor info")
          /\ UNCHANGED scrape
       \/ \E n \in 0..MaxTutors :
            /\ ntutors' = n
            /\ tnum' = 1
            /\ pc' = IF n = 0 THEN "R_waitButton" ELSE "R_findName"
            /\ UNCHANGED <<snum, nslots, name, slots, tutors, page, ret>>
    /\ UNCHANGED <<service, wd, tzLocal, from, margin, failed>>

\* nameElm, _ := c.wd.FindElement(name of row tnum); name, _ := nameElm.Text()
\* A failed lookup leaves nameElm nil, and nameElm.Text() panics.
R_FindName ==
    /\ pc = "R_findName"
    /\ \/ /\ trace' = Issue("FindElement")
          /\ pc' = "panic"
          /\ UNCHANGED name
       \/ \E txt \in NameTexts :
            /\ trace' = trace \o <<"FindElement", "Text">>
            /\ name' = txt
            /\ pc' = "R_findSlots"
    /\ UNCHANGED <<service, wd, tzLocal, from, margin, failed, tnum, snum,
                   ntutors, nslots, slots, tutors, page, ret>>

\* tutors = append(tutors, Tutor{name, slots}) and the row loop's tnum++.
EndRow(ss) ==
    /\ tutors' = Append(tutors, [Name |-> name, AvailableSlots |-> ss])
    /\ tnum' = tnum + 1
    /\ pc' = IF tnum + 1 <= ntutors THEN "R_findName" ELSE "R_waitButton"

\* slotElms, err := c.wd.FindElements(slots of row tnum); the slot loop
\* starts at snum = 1 with no slots.
R_FindSlots ==
    /\ pc = "R_findSlots"
    /\ trace' = Issue("FindElements")
    /\ \/ /\ pc' = "idle"
          /\ ret' = Return("ReserveTutor", NoRes, "failed to get time slots for tutor")
          /\ UNCHANGED scrape
       \/ \E k \in 0..MaxSlots :
            /\ nslots' = k
            /\ snum' = 1
            /\ page' = Append(page, [name |-> name, n |-> k, seen |-> <<>>])
            /\ IF k = 0
               THEN EndRow(<<>>) /\ slots' = <<>>
               ELSE slots' = <<>> /\ pc' = "R_slot" /\ UNCHANGED <<tutors, tnum>>
            /\ UNCHANGED <<ntutors, name, ret>>
    /\ UNCHANGED <<service, wd, tzLocal, from, margin, failed>>

\* The slots after one pass of the slot loop's body on a slot element
\* that was found and whose text is txt.
SlotsAfter(ss, txt) ==
    LET p  == parseTime(txt)
        s1 == IF p.err THEN Append(ss, ZeroTime) ELSE ss
    IN  Append(s1, Date(Day(from), p.h, p.m, tzLocal))

\* One pass of the slot loop: FindElement(button snum of row tnum), Text(),
\* parseTime, append.  A failed lookup appends the zero time and goes on to
\* slotElm.Text() with slotElm nil, which panics.
R_Slot ==
    /\ pc = "R_slot"
    /\ \/ /\ trace' = Issue("FindElement")
          /\ slots' = Append(slots, ZeroTime)
          /\ page' = [page EXCEPT ![tnum].seen = Append(@, [found |-> FALSE, text |-> <<>>])]
          /\ pc' = "panic"
          /\ UNCHANGED <<snum, tutors, tnum>>
       \/ \E txt \in SlotTexts :
            /\ trace' = trace \o <<"FindElement", "Text">>
            /\ page' = [page EXCEPT ![tnum].seen = Append(@, [found |-> TRUE, text |-> txt])]
            /\ snum' = snum + 1
            /\ IF snum + 1 <= nslots
               THEN /\ slots' = SlotsAfter(slots, txt)
                    /\ pc' = "R_slot"
                    /\ UNCHANGED <<tutors, tnum>>
               ELSE /\ slots' = SlotsAfter(slots, txt)
                    /\ EndRow(SlotsAfter(slots, txt))
    /\ UNCHANGED <<service, wd, tzLocal, from, margin, failed, ntutors, nslots,
                   name, ret>>

\* waitUntilElementLoaded(c.wd, selenium.ByCSSSelector, timeSlotButtonSelector)
R_WaitButton ==
    /\ pc = "R_waitButton"
    /\ trace' = Issue("waitUntilElementLoaded")
    /\ \E ok \in BOOLEAN : waitUntilElementLoaded("wait button", ok)
    /\ pc' = "R_findButton"
    /\ UNCHANGED <<service, wd, tzLocal, from, margin, scrape, ret>>

\* c.wd.FindElement(button 1 of row 1), timeSlot.Click(), c.wd.CurrentURL()
R_FindButton ==
    /\ pc = "R_findButton"
    /\ \/ /\ trace' = Issue("FindElement")
          /\ pc' = "idle"
          /\ ret' = Return("ReserveTutor", NoRes, "failed to find time slot button")
          /\ Outcome("find button", FALSE)
       \/ \E clicked \in BOOLEAN :
            /\ trace' = trace \o <<"FindElement", "Click", "CurrentURL">>
            /\ Outcome("click button", clicked)
            /\ pc' = "R_waitLink"
            /\ UNCHANGED ret
    /\ UNCHANGED <<service, wd, tzLocal, from, margin, scrape>>

\* waitUntilElementLoaded(c.wd, selenium.ByLinkText, ...)
R_WaitLink ==
    /\ pc = "R_waitLink"
    /\ trace' = Issue("waitUntilElementLoaded")
    /\ \E ok \in BOOLEAN : waitUntilElementLoaded("wait link", ok)
    /\ pc' = "R_findLink"
    /\ UNCHANGED <<service, wd, tzLocal, from, margin, scrape, ret>>

\* c.wd.FindElement(selenium.ByLinkText, ...), reserveButton.Click()
R_FindLink ==
    /\ pc = "R_findLink"
    /\ \/ /\ trace' = Issue("FindElement")
          /\ pc' = "idle"
          /\ ret' = Return("ReserveTutor", NoRes, "failed to get reserve button")
          /\ Outcome("find link", FALSE)
       \/ \E clicked \in BOOLEAN :
            /\ trace' = trace \o <<"FindElement", "Click">>
            /\ Outcome("click link", clicked)
            /\ pc' = "R_waitURL"
            /\ UNCHANGED ret
    /\ UNCHANGED <<service, wd, tzLocal, from, margin, scrape>>

\* The bug of a lesson of half an hour that starts at the row's last slot.
NewReserve_last(ts) ==
    LET ss == ts[1].AvailableSlots
    IN  [Name |-> ts[1].Name, StartAt |-> ss[Len(ss)], EndAt |-> Add(ss[Len(ss)], 30)]

\* &Reserve{tutors[0].Name, tutors[0].AvailableSlots[0], ... .Add(25 * time.Minute)}
NewReserve(ts) ==
    [Name    |-> ts[1].Name,
     StartAt |-> ts[1].AvailableSlots[1],
     EndAt   |-> Add(ts[1].AvailableSlots[1], LessonMinutes)]

\* waitUntilURLChanged(c.wd, rarejobReservationFinishURL), then the return of
\* the Reserve.  tutors[0] of no tutors and AvailableSlots[0] of no slots
\* panic (index out of range).
R_WaitURL ==
    /\ pc = "R_waitURL"
    /\ trace' = Issue("waitUntilURLChanged")
    /\ \E ok \in BOOLEAN : waitUntilURLChanged("wait url", ok)
    /\ IF tutors = <<>> \/ tutors[1].AvailableSlots = <<>>
       THEN pc' = "panic" /\ UNCHANGED ret
       ELSE pc' = "idle" /\ ret' = Return("ReserveTutor", <<NewReserve(tutors)>>, Nil)
    /\ UNCHANGED <<service, wd, tzLocal, from, margin, scrape>>

ReserveTutor ==
    \/ CallReserveTutor
    \/ R_Validate
    \/ R_Query
    \/ R_Get
    \/ R_WaitList
    \/ R_FindList
    \/ R_FindName
    \/ R_FindSlots
    \/ R_Slot
    \/ R_WaitButton
    \/ R_FindButton
    \/ R_WaitLink
    \/ R_FindLink
    \/ R_WaitURL

\* ----------------------------------------------------------- Teardown

CallTeardown ==
    /\ pc = "idle"
    /\ Fresh
    /\ ret' = NoRet
    /\ pc' = "T_quit"
    /\ from' = ZeroTime
    /\ margin' = 0
    /\ UNCHANGED <<service, wd, tzLocal>>

\* c.wd.Quit(); an error returns at once.
T_Quit ==
    /\ pc = "T_quit"
    /\ trace' = Issue("Quit")
    /\ \E ok \in BOOLEAN :
        /\ Outcome("quit", ok)
        /\ IF ok
           THEN /\ wd' = "quit"
                /\ pc' = "T_stop"
                /\ UNCHANGED ret
           ELSE /\ ret' = Return("Teardown", NoRes, "failed to quit current webdriver session: quit")
                /\ pc' = "closed"
                /\ UNCHANGED wd
    /\ UNCHANGED <<service, tzLocal, from, margin, scrape>>

\* c.s.Stop()
T_Stop ==
    /\ pc = "T_stop"
    /\ trace' = Issue("Stop")
    /\ \E ok \in BOOLEAN :
        /\ Outcome("stop", ok)
        /\ IF ok
           THEN /\ service' = "stopped"
                /\ ret' = Return("Teardown", NoRes, Nil)
           ELSE /\ ret' = Return("Teardown", NoRes, "failed to quit current webdriver session: stop")
                /\ UNCHANGED service
    /\ pc' = "closed"
    /\ UNCHANGED <<wd, tzLocal, from, margin, scrape>>

Teardown == CallTeardown \/ T_Quit \/ T_Stop

Next == NewClient \/ Login \/ ReserveTutor \/ Teardown

Spec == Init /\ [][Next]_vars

\* ------------------------------------------- the window validation alone

\* Half hours after the base day's local midnight that a window starts at.
StartSteps == 48
\* Margins run from -MarginSteps to MarginSteps half hours.
MarginSteps == 50

\* Offsets from UTC of the location the caller's from is expressed in.
FromZones == {-300, 0, 60, 540}

\* ReserveTutor is at its validation with any start and any margin.
InitValidate ==
    /\ pc = "R_validate"
    /\ service = "running"
    /\ wd = "open"
    /\ tzLocal \in LocalZones
    /\ \E k \in 0..(StartSteps - 1), z \in FromZones :
         from = [t |-> BaseDay * DayMinutes - tzLocal + k * 30, off |-> z]
    /\ \E j \in (0 - MarginSteps)..MarginSteps : margin = j * 30
    /\ trace = <<>>
    /\ failed = {}
    /\ tnum = 0
    /\ snum = 0
    /\ ntutors = 0
    /\ nslots = 0
    /\ name = ""
    /\ slots = <<>>
    /\ tutors = <<>>
    /\ page = <<>>
    /\ ret = NoRet

SpecValidate == InitValidate /\ [][R_Validate]_vars

\* ------------------------------------------------------------- claims

\* ReserveTutor is past its validation, or has returned.
ReserveRunning ==
    pc \in {"R_query", "R_get", "R_waitList", "R_findList", "R_findName",
            "R_findSlots", "R_slot", "R_waitButton", "R_findButton",
            "R_waitLink", "R_findLink", "R_waitURL", "panic"}

ReserveReturned == pc = "idle" /\ ret.op = "ReserveTutor"

Issued(cmd) == \E i \in 1..Len(trace) : trace[i] = cmd

\* C1: Teardown always attempts both release steps: whatever the session
\* quit returned, the driver-process stop is invoked after it, and when the
\* quit fails the error Teardown returns is the session-quit error.
C1_TeardownAttemptsBoth ==
    (pc = "closed" /\ ret.op = "Teardown") =>
        /\ Issued("Quit")
        /\ Issued("Stop")
        /\ ("quit" \in failed =>
               ret.err = "failed to quit current webdriver session: quit")

\* What one slot element of the page stands for in AvailableSlots: the zero
\* time when its lookup or its parse failed, else the parsed time on the
\* search date.
SlotOf(e) ==
    IF ~e.found \/ parseTime(e.text).err
    THEN ZeroTime
    ELSE Date(Day(from), parseTime(e.text).h, parseTime(e.text).m, tzLocal)

\* C2: every scraped tutor row has exactly as many AvailableSlots as the row
\* has slot elements, entry i being the zero time exactly when the i-th
\* slot's lookup or parse failed and else the parsed time on the search date.
C2_SlotsAlignedWithElements ==
    \A r \in 1..Len(tutors) :
        /\ Len(tutors[r].AvailableSlots) = page[r].n
        /\ Len(page[r].seen) = page[r].n
        /\ \A i \in 1..page[r].n :
              tutors[r].AvailableSlots[i] = SlotOf(page[r].seen[i])

\* C3: a Reservation is returned only if every wait, find and click from the
\* slot button to the reservation-finished URL succeeded; when one of them
\* fails, ReserveTutor returns an error and no Reservation.
C3_NoReservationAfterFailure ==
    ReserveReturned =>
        /\ ret.res # NoRes =>
              failed \cap {"wait button", "find button", "click button",
                           "wait link", "find link", "click link",
                           "wait url"} = {}
        /\ ret.res # NoRes => ret.err = Nil
        /\ "wait url" \in failed => (ret.res = NoRes /\ ret.err # Nil)

\* C4: every window the validation accepts lies within one local calendar
\* day: from and from + margin fall on the same local date, for every zone
\* of from and every margin, zero and negative ones included.
C4_AcceptedWindowInOneLocalDay ==
    pc = "R_query" =>
        (from.t + tzLocal) \div 1440 = (from.t + margin + tzLocal) \div 1440

\* C5: the validation accepts (from, margin) if and only if margin is
\* strictly less than 24 hours and the hour of day of from (in from's own
\* location) is strictly less than the hour of day of by = from + margin in
\* local time; every other window, every margin of 24 hours or more
\* included, is rejected with the cross-day error and no Reservation.
C5_AcceptedIffShortAndHourGrows ==
    LET hourFrom == ((from.t + from.off) \div 60) % 24
        hourBy   == ((from.t + margin + tzLocal) \div 60) % 24
        accept   == margin < 24 * 60 /\ hourFrom < hourBy
    IN  /\ pc = "R_query" => accept
        /\ pc = "idle" => /\ ~accept
                          /\ ret = Return("ReserveTutor", NoRes, ErrSpreadAcrossTwoDays)
        /\ (pc # "R_validate" /\ margin >= 24 * 60) => pc = "idle"
        /\ (pc # "R_validate" /\ from.off = tzLocal /\ margin = 120
              /\ (from.t + tzLocal) % 1440 = 9 * 60) => pc = "R_query"
        /\ (pc # "R_validate" /\ from.off = tzLocal /\ margin = 60
              /\ (from.t + tzLocal) % 1440 = 23 * 60 + 30) => pc = "idle"

\* A window of two hours from 09:00 local has been accepted.
C5_Witness ==
    /\ pc = "R_query"
    /\ from.off = tzLocal
    /\ (from.t + tzLocal) % 1440 = 9 * 60
    /\ margin = 120

\* C6: when the validation rejects the window, ReserveTutor returns the
\* cross-day error and no Reservation without having issued any command to
\* the automation backend: no command is issued before the validation has
\* passed.
C6_RejectedBeforeAnyCommand ==
    LET hourFrom == ((from.t + from.off) \div 60) % 24
        hourBy   == ((from.t + margin + tzLocal) \div 60) % 24
        reject   == ~(margin < 24 * 60 /\ hourFrom < hourBy)
    IN  /\ (ReserveReturned /\ ret.err = ErrSpreadAcrossTwoDays) =>
              (ret.res = NoRes /\ trace = <<>>)
        /\ ((ReserveRunning \/ ReserveReturned) /\ reject) =>
              /\ trace = <<>>
              /\ ret = Return("ReserveTutor", NoRes, ErrSpreadAcrossTwoDays)
        /\ (pc = "R_validate") => trace = <<>>

\* A window of 25 hours has been rejected.
C6_Witness ==
    /\ ReserveReturned
    /\ margin = 1500
    /\ ret.err = ErrSpreadAcrossTwoDays
    /\ trace = <<>>

LoginReturned == pc = "idle" /\ ret.op = "Login"

C8_ReservationOfFirstTutorFirstSlot ==
    (ReserveReturned /\ ret.res # NoRes) =>
        /\ ret.res[1].Name = tutors[1].Name
        /\ ret.res[1].Name = page[1].name
        /\ ret.res[1].StartAt = tutors[1].AvailableSlots[1]
        /\ ret.res[1].EndAt.t = ret.res[1].StartAt.t + 25
        /\ ret.res[1].EndAt.off = ret.res[1].StartAt.off
        /\ ret.res[1].StartAt = Date(Day(from), 9, 0, tzLocal) =>
              ret.res[1].EndAt = Date(Day(from), 9, 25, tzLocal)

\* A Reservation of Alice at 09:00 has been returned, from a page of two
\* rows whose first row has two slots.
C8_Witness ==
    /\ ReserveReturned
    /\ ret.res # NoRes
    /\ ret.res[1].Name = "Alice"
    /\ ret.res[1].StartAt = Date(BaseDay, 9, 0, tzLocal)
    /\ Len(tutors) = 2
    /\ Len(tutors[1].AvailableSlots) = 2

\* C9: whatever the backend does, ReserveTutor ends by returning a
\* Reservation or an error: it never reads the text of an element whose
\* lookup failed and never indexes an empty sequence (it never panics).
C9_ReserveTutorNeverPanics == pc # "panic"

\* C10: when NewClient has returned an error, no driver process it started
\* is still running.
C10_NoDriverAfterFailedNewClient ==
    (ret.op = "NewClient" /\ ret.err # Nil) => service # "running"

=============================================================================
